---- MODULE Spec2Model ----
(***************************************************************************)
(* Verification model of the two scripts of pulsevector-sim:               *)
(*   - data/scripts/convert_gnucash_xml_to_sqlite.py  (hierarchy converter)*)
(*   - tests/archetype_demo.py                        (profile wizard)     *)
(***************************************************************************)
EXTENDS Integers, Sequences, FiniteSets, TLC

VARIABLES
    \* ---- converter ----
    argv,               \* main's argument vector
    dest,               \* the file at the output path
    exit_code,          \* the status the process ended with: <<>> while it runs
    doc,                \* the account elements of the input XML, in document order
    accts,              \* parse_accounts: List[AcctRec]
    root_guid,          \* parse_accounts: guid of the "Root Account" record or None
    template_root_guid, \* parse_accounts: guid of the "Template Root" record or None
    commodities,        \* book.commodities: CURRENCY mnemonics, an object per index
    nodes,              \* the Account objects added to the session, in creation order
    guid_to_obj,        \* build_sqlite_book.guid_to_obj
    stack,              \* the active create_subtree calls, innermost last
    todo,               \* the fallback loop's sorted list, not yet visited part
    created,            \* build_sqlite_book.created
    cpc,                \* converter position
    \* ---- wizard ----
    args,               \* argparse result: [gui, out]
    name,               \* cli_wizard.name / gui_wizard.name_var
    arch_key,           \* cli_wizard.arch_key / gui_wizard.archetype_var
    scenario_key,       \* cli_wizard.scenario_key / gui_wizard.scenario_var
    diff_key,           \* cli_wizard.diff_key / gui_wizard.diff_var
    stats,              \* cli_wizard.stats / gui_wizard.stat_vars, in STATS order
    points,             \* cli_wizard.points / gui_wizard.points_left
    files,              \* the profiles in the working directory, by file name
    writes,             \* how many times a profile file was written
    wpc                 \* wizard position

cvars == <<argv, dest, exit_code, doc, accts, root_guid, template_root_guid, commodities, nodes,
           guid_to_obj, stack, todo, created, cpc>>

wvars == <<args, name, arch_key, scenario_key, diff_key, stats, points,
           files, writes, wpc>>

vars == <<argv, dest, exit_code, doc, accts, root_guid, template_root_guid, commodities, nodes,
          guid_to_obj, stack, todo, created, cpc,
          args, name, arch_key, scenario_key, diff_key, stats, points,
          files, writes, wpc>>

(***************************************************************************)
(* Values                                                                  *)
(***************************************************************************)
\* Python's None (for Optional[str] fields); no guid, name or code equals it
None == "None"

\* Destination objects: book.root_account, book.root_template, and the
\* k-th created Account is the object k (k >= 1)
RootAccount == 0
RootTemplate == 0 - 1

\* bounds of the explored inputs
MaxAccts == 3

GuidPool == <<"g1", "g2", "g3", "g4", "g5">>

\* a recursion deeper than this is a recursion through a cycle of guids
MaxDepth == MaxAccts + 2

(***************************************************************************)
(* The input documents                                                     *)
(***************************************************************************)
\* One <gnc:account> element: the stripped text of its children, "" when the
\* child element is missing or empty (_findtext's default)
Elem(id, nm, type, parent, cspace, cid) ==
    [id |-> id, name |-> nm, type |-> type, parent |-> parent,
     cspace |-> cspace, cid |-> cid]

RootElem(id, cspace, cid) == Elem(id, "Root Account", "ROOT", "", cspace, cid)
TemplateElem == Elem("t", "Template Root", "ROOT", "", "", "")
AcctType(nm) == IF nm = "A" THEN "ASSET" ELSE "BANK"
AcctElem(id, nm, parent) == Elem(id, nm, AcctType(nm), parent, "", "")

AcctNames == {"A", "B"}
AcctGuids == {GuidPool[i] : i \in 1..MaxAccts}

\* guids up to renaming: the i-th record reuses an earlier guid or takes the
\* next unused one of the pool
GuidPatterns(n) ==
    {f \in [1..n -> 1..n] :
        \A i \in 1..n : \A k \in 2..n :
            f[i] = k => \E j \in 1..(i - 1) : f[j] = k - 1}

UniquePattern(n) == [i \in 1..n |-> i]

\* the document with these ROOT records followed by n account records
DocOf(h, n, g, nm, p) ==
    h \o [i \in 1..n |-> AcctElem(GuidPool[g[i]], nm[i], p[i])]

\* the ROOT records of the document: none, the template root alone, a
\* Root Account with the template root, a Root Account whose id is missing
Headers ==
    {<<>>, <<TemplateElem>>, <<RootElem("r", "", ""), TemplateElem>>,
     <<RootElem("", "", "")>>}

\* documents with pairwise distinct record ids: every name, every parent link
IsUniqueDoc(d) ==
    \E n \in 0..MaxAccts, h \in Headers :
        \E nm \in [1..n -> AcctNames],
           p \in [1..n -> {"", "r", "t"} \cup AcctGuids] :
            d = DocOf(h, n, UniquePattern(n), nm, p)

\* documents in which a record id occurs twice, under a Root Account
IsDupDoc(d) ==
    \E n \in 2..MaxAccts :
        \E g \in GuidPatterns(n) \ {UniquePattern(n)},
           p \in [1..n -> {"r"} \cup AcctGuids] :
            d = DocOf(<<RootElem("r", "", "")>>, n, g, [i \in 1..n |-> "A"], p)

\* documents whose records declare commodities: a Root Account with or
\* without a currency (create_book takes ISO codes) or no root, and accounts
\* under it with every namespace and code
RootCommodities ==
    {<<"", "">>, <<"CURRENCY", "USD">>, <<"CURRENCY", "EUR">>, <<"FUND", "USD">>}
AcctCommodities ==
    {"", "CURRENCY", "FUND"} \X {"", "USD", "usd", "EUR"}

IsCurDoc(d) ==
    \E n \in 0..MaxAccts :
        \E h \in {<<>>} \cup {<<RootElem("r", rc[1], rc[2])>> : rc \in RootCommodities},
           c \in [1..n -> AcctCommodities] :
            d = h \o [i \in 1..n |->
                        Elem(GuidPool[i], "A", "ASSET", "r", c[i][1], c[i][2])]

(***************************************************************************)
(* parse_accounts                                                          *)
(***************************************************************************)
\* `x or None`
OrNone(t) == IF t = "" THEN None ELSE t

ParseAccount(el) ==
    [guid |-> el.id, name |-> el.name, type |-> el.type,
     parent_guid |-> OrNone(el.parent),
     commodity_space |-> OrNone(el.cspace),
     commodity_id |-> OrNone(el.cid)]

MaxOf(S) == CHOOSE x \in S : \A y \in S : y <= x

\* the guid of the last element of that type and name, None when there is none
LastGuidOf(d, type, nm) ==
    LET S == {i \in 1..Len(d) : d[i].type = type /\ d[i].name = nm}
    IN  IF S = {} THEN None ELSE d[MaxOf(S)].id

ParseAccounts(d) ==
    [accounts |-> [i \in 1..Len(d) |-> ParseAccount(d[i])],
     root_guid |-> LastGuidOf(d, "ROOT", "Root Account"),
     template_root_guid |-> LastGuidOf(d, "ROOT", "Template Root")]

\* Python truthiness of an Optional[str]
Truthy(s) == s # None /\ s # ""

(***************************************************************************)
(* Currencies                                                              *)
(***************************************************************************)
\* code.strip().upper() on the codes of the explored inputs
StripUpper(code) ==
    CASE code = "usd" -> "USD"
      [] code = "eur" -> "EUR"
      [] OTHER -> code

\* the lookup compares the mnemonics with the code as the record spells it
FindCurrencyAsSpelled(comms, code) ==
    LET S == {i \in 1..Len(comms) : comms[i] = code}
    IN  IF S = {} THEN 0 ELSE CHOOSE i \in S : \A j \in S : i <= j

\* the index of the first CURRENCY commodity of the book with that mnemonic,
\* 0 when the loop falls through
FindCurrency(comms, code) ==
    LET S == {i \in 1..Len(comms) : comms[i] = StripUpper(code)}
    IN  IF S = {} THEN 0 ELSE CHOOSE i \in S : \A j \in S : i <= j

\* get_or_create_currency: the book's commodities afterwards and the object
GetOrCreateCurrency(comms, code) ==
    IF FindCurrency(comms, code) # 0
    THEN [commodities |-> comms, obj |-> FindCurrency(comms, code)]
    ELSE [commodities |-> Append(comms, StripUpper(code)),
          obj |-> Len(comms) + 1]

DetectDefaultCurrency(as, rg) ==
    IF ~Truthy(rg) THEN "EUR"
    ELSE LET S == {i \in 1..Len(as) : as[i].guid = rg}
         IN  IF S = {} THEN "EUR"
             ELSE LET rec == as[CHOOSE i \in S : \A j \in S : i <= j]
                  IN  IF rec.commodity_space = "CURRENCY"
                         /\ Truthy(rec.commodity_id)
                      THEN rec.commodity_id
                      ELSE "EUR"

\* the commodity an account record resolves to: the book afterwards and the
\* object (0 is Python's None)
ResolveCommodity(comms, a) ==
    IF a.commodity_space = "CURRENCY" /\ Truthy(a.commodity_id)
    THEN GetOrCreateCurrency(comms, a.commodity_id)
    ELSE [commodities |-> comms, obj |-> 0]

(***************************************************************************)
(* build_sqlite_book                                                       *)
(***************************************************************************)
\* every name compares equal to every other
NameRankFlat(nm) == 1

\* str comparison on the names of the explored inputs
NameRank(nm) ==
    CASE nm = "A" -> 1
      [] nm = "B" -> 2
      [] nm = "Root Account" -> 3
      [] OTHER -> 4

RECURSIVE InsertByName(_, _)
\* s is sorted: x goes after every record whose name is not greater
InsertByName(s, x) ==
    IF s = <<>> THEN <<x>>
    ELSE IF NameRank(x.rec.name) < NameRank(Head(s).rec.name)
         THEN <<x>> \o s
         ELSE <<Head(s)>> \o InsertByName(Tail(s), x)

RECURSIVE SortFrom(_, _)
SortFrom(acc, s) ==
    IF s = <<>> THEN acc ELSE SortFrom(InsertByName(acc, Head(s)), Tail(s))

\* the children are visited in document order
DocumentOrder(s) == s

\* sorted(s, key=lambda r: r.name): stable
SortedByName(s) == SortFrom(<<>>, s)

\* accts with each record's position (the record's identity, accts holding
\* equal records twice when the document does)
Indexed(as) == [i \in 1..Len(as) |-> [idx |-> i, rec |-> as[i]]]
IsNotRoot(e) == e.rec.type # "ROOT"
NonRoot(as) == SelectSeq(Indexed(as), IsNotRoot)

\* children[pg] = [a] in place of append: the last child alone is kept
ChildrenLastOnly(as, pg) ==
    LET Under(e) == e.rec.type # "ROOT" /\ e.rec.parent_guid = pg
        all == SelectSeq(Indexed(as), Under)
    IN  IF all = <<>> THEN <<>> ELSE <<all[Len(all)]>>

\* children[pg]: the non-ROOT records with that parent_guid, in document order
Children(as, pg) ==
    LET Under(e) == e.rec.type # "ROOT" /\ e.rec.parent_guid = pg
    IN  SelectSeq(Indexed(as), Under)

\* guid_to_obj[k] = v
Put(m, k, v) == [g \in DOMAIN m \cup {k} |-> IF g = k THEN v ELSE m[g]]
\* guid_to_obj.get(k, default)
Get(m, k, default) == IF k \in DOMAIN m THEN m[k] ELSE default

EmptyMap == [g \in {} |-> 0]

\* every account is attached to the book's root account
NewAccountUnderRoot(e, commodity, parent_obj) ==
    [name |-> e.rec.name, type |-> e.rec.type, commodity |-> commodity,
     parent |-> RootAccount, src |-> e.idx]

\* Account(name=, type=, commodity=, parent=, book=); src is the position of
\* the source record in accts
NewAccount(e, commodity, parent_obj) ==
    [name |-> e.rec.name, type |-> e.rec.type, commodity |-> commodity,
     parent |-> parent_obj, src |-> e.idx]

\* the loop of a call runs over every record, whatever its parent
FrameOfAllRecords(as, pg, parent_obj) ==
    [parent_obj |-> parent_obj, todo |-> SortedByName(NonRoot(as))]

Frame(as, pg, parent_obj) ==
    [parent_obj |-> parent_obj, todo |-> SortedByName(Children(as, pg))]

RECURSIVE Unwind(_)
\* the calls whose loop is over return
Unwind(st) ==
    IF st # <<>> /\ st[Len(st)].todo = <<>>
    THEN Unwind(SubSeq(st, 1, Len(st) - 1))
    ELSE st

ConvFresh ==
    /\ exit_code = <<>>
    /\ accts = <<>>
    /\ root_guid = None
    /\ template_root_guid = None
    /\ commodities = <<>>
    /\ nodes = <<>>
    /\ guid_to_obj = EmptyMap
    /\ stack = <<>>
    /\ todo = <<>>
    /\ created = 0
    /\ cpc = "main"

\* the usage error is raised for a vector that is too short alone
TooFewArgs(av) == Len(av) < 3

\* the test of line 201
WrongArgc(av) == Len(av) # 3

\* main up to the call of build_sqlite_book (lines 200-209): the usage
\* message and status 2, or xml_path and out_path are taken from argv
ConvMain ==
    /\ cpc = "main"
    /\ IF WrongArgc(argv)
       THEN /\ cpc' = "usage"
            /\ exit_code' = <<2>>
       ELSE /\ cpc' = "start"
            /\ UNCHANGED exit_code
    /\ UNCHANGED <<argv, dest, doc, accts, root_guid, template_root_guid,
                   commodities, nodes, guid_to_obj, stack, todo, created>>
    /\ UNCHANGED wvars

\* build_sqlite_book up to the choice of the traversal (lines 132-177);
\* create_book(overwrite=True) replaces the file at out_path by an empty book
BuildStart ==
    /\ cpc = "start"
    /\ LET p == ParseAccounts(doc)
           rg == p.root_guid
           tg == p.template_root_guid
           m1 == IF Truthy(rg) THEN Put(EmptyMap, rg, RootAccount) ELSE EmptyMap
           m2 == IF Truthy(tg) THEN Put(m1, tg, RootTemplate) ELSE m1
       IN  /\ accts' = p.accounts
           /\ root_guid' = rg
           /\ template_root_guid' = tg
           /\ commodities' = <<DetectDefaultCurrency(p.accounts, rg)>>
           /\ guid_to_obj' = m2
           /\ IF Truthy(rg) /\ rg \in DOMAIN m2
              THEN /\ cpc' = "tree"
                   /\ stack' = Unwind(<<Frame(p.accounts, rg, m2[rg])>>)
                   /\ todo' = <<>>
              ELSE /\ cpc' = "flat"
                   /\ stack' = <<>>
                   /\ todo' = SortedByName(NonRoot(p.accounts))
    /\ dest' = "fresh"
    /\ UNCHANGED <<argv, exit_code, doc, nodes, created>>
    /\ UNCHANGED wvars

\* one iteration of create_subtree's loop (lines 157-172), with the returns
\* of the calls that it ends
CreateSubtree ==
    /\ cpc = "tree"
    /\ stack # <<>>
    /\ Len(stack) < MaxDepth
    /\ LET top == stack[Len(stack)]
           e == Head(top.todo)
           c == ResolveCommodity(commodities, e.rec)
           acc == Len(nodes) + 1
           rest == [stack EXCEPT ![Len(stack)].todo = Tail(top.todo)]
       IN  /\ commodities' = c.commodities
           /\ nodes' = Append(nodes, NewAccount(e, c.obj, top.parent_obj))
           /\ guid_to_obj' = Put(guid_to_obj, e.rec.guid, acc)
           /\ created' = created + 1
           /\ stack' = Unwind(Append(rest, Frame(accts, e.rec.guid, acc)))
    /\ UNCHANGED <<argv, dest, exit_code, doc, accts, root_guid,
                   template_root_guid, todo, cpc>>
    /\ UNCHANGED wvars

\* the recursion does not end: RecursionError, nothing is saved, the
\* interpreter ends with status 1
RecursionOverflow ==
    /\ cpc = "tree"
    /\ stack # <<>>
    /\ Len(stack) >= MaxDepth
    /\ cpc' = "crashed"
    /\ exit_code' = <<1>>
    /\ UNCHANGED <<argv, dest, doc, accts, root_guid, template_root_guid, commodities,
                   nodes, guid_to_obj, stack, todo, created>>
    /\ UNCHANGED wvars

\* one iteration of the fallback loop (lines 179-193)
FallbackAttach ==
    /\ cpc = "flat"
    /\ todo # <<>>
    /\ LET e == Head(todo)
           parent_obj == Get(guid_to_obj, e.rec.parent_guid, RootAccount)
           c == ResolveCommodity(commodities, e.rec)
           acc == Len(nodes) + 1
       IN  /\ commodities' = c.commodities
           /\ nodes' = Append(nodes, NewAccount(e, c.obj, parent_obj))
           /\ guid_to_obj' = Put(guid_to_obj, e.rec.guid, acc)
           /\ created' = created + 1
           /\ todo' = Tail(todo)
    /\ UNCHANGED <<argv, dest, exit_code, doc, accts, root_guid,
                   template_root_guid, stack, cpc>>
    /\ UNCHANGED wvars

\* book.save() and the two prints (lines 195-197), main returns 0 (line 210)
BuildFinish ==
    /\ \/ cpc = "tree" /\ stack = <<>>
       \/ cpc = "flat" /\ todo = <<>>
    /\ cpc' = "done"
    /\ dest' = "saved"
    /\ exit_code' = <<0>>
    /\ UNCHANGED <<argv, doc, accts, root_guid, template_root_guid, commodities,
                   nodes, guid_to_obj, stack, todo, created>>
    /\ UNCHANGED wvars

RECURSIVE TreeRun(_, _, _)
\* create_subtree run to its end from these active calls (lines 155-172):
\* the accounts added, in order, and whether the recursion overflowed; the
\* commodities are left out
TreeRun(as, ns, st) ==
    IF st = <<>> THEN [nodes |-> ns, crashed |-> FALSE]
    ELSE IF Len(st) >= MaxDepth THEN [nodes |-> ns, crashed |-> TRUE]
    ELSE LET top == st[Len(st)]
             e == Head(top.todo)
             acc == Len(ns) + 1
             rest == [st EXCEPT ![Len(st)].todo = Tail(top.todo)]
         IN  TreeRun(as, Append(ns, NewAccount(e, 0, top.parent_obj)),
                     Unwind(Append(rest, Frame(as, e.rec.guid, acc))))

RECURSIVE FlatRun(_, _, _)
\* the fallback loop run to its end (lines 179-193)
FlatRun(ns, m, td) ==
    IF td = <<>> THEN [nodes |-> ns, crashed |-> FALSE]
    ELSE LET e == Head(td)
             parent_obj == Get(m, e.rec.parent_guid, RootAccount)
         IN  FlatRun(Append(ns, NewAccount(e, 0, parent_obj)),
                     Put(m, e.rec.guid, Len(ns) + 1), Tail(td))

\* build_sqlite_book on the document d, from the parse to the last account
BuildRun(d) ==
    LET p == ParseAccounts(d)
        rg == p.root_guid
        tg == p.template_root_guid
        m1 == IF Truthy(rg) THEN Put(EmptyMap, rg, RootAccount) ELSE EmptyMap
        m2 == IF Truthy(tg) THEN Put(m1, tg, RootTemplate) ELSE m1
    IN  IF Truthy(rg) /\ rg \in DOMAIN m2
        THEN TreeRun(p.accounts, <<>>,
                     Unwind(<<Frame(p.accounts, rg, m2[rg])>>))
        ELSE FlatRun(<<>>, m2, SortedByName(NonRoot(p.accounts)))

NextConv ==
    \/ ConvMain
    \/ BuildStart
    \/ CreateSubtree
    \/ RecursionOverflow
    \/ FallbackAttach
    \/ BuildFinish

(***************************************************************************)
(* The profile wizard: tables                                              *)
(***************************************************************************)
STATS ==
    <<"Finance/Capital", "Accounting/Controls", "Excel/Tactics",
      "Forecasting/Modeling", "Risk/Underwriting", "Negotiation/Stakeholders",
      "Execution/Speed">>

\* key and base_stats (in STATS order) of each archetype
ARCHETYPES ==
    <<[key |-> "banker",     base_stats |-> <<6, 3, 3, 4, 6, 5, 4>>],
      [key |-> "accountant", base_stats |-> <<3, 6, 5, 4, 4, 3, 4>>],
      [key |-> "modeler",    base_stats |-> <<4, 3, 4, 6, 4, 3, 4>>],
      [key |-> "controller", base_stats |-> <<4, 5, 4, 4, 4, 4, 4>>],
      [key |-> "auditor",    base_stats |-> <<3, 6, 4, 4, 5, 3, 3>>]>>

SCENARIOS ==
    <<"chicago_night", "funding_crunch", "vendor_strike", "audit_shadow">>

\* list(DIFFICULTY_PRESETS.keys())
DifficultyKeys == <<"normal", "hard", "nightmare">>

DIFFICULTY_PRESETS(k) ==
    CASE k = "normal" -> [stress |-> 0, credit |-> 720]
      [] k = "hard" -> [stress |-> 15, credit |-> 680]
      [] k = "nightmare" -> [stress |-> 25, credit |-> 640]

StatCeiling == 7
AllocationPoints == 3
CreditJitter == 15
StressJitter == 5
DefaultName == "Senior Operator"
DefaultOut == "pulsevector_profile.json"

\* bound of the explored runs: the Save Profile presses that write
MaxWrites == 2

KeysOf(options) == [i \in 1..Len(options) |-> options[i].key]

find_archetype(key) ==
    ARCHETYPES[CHOOSE i \in 1..Len(ARCHETYPES) : ARCHETYPES[i].key = key]

\* random.randint(lo, hi): any of its outcomes
RandInt(lo, hi) == lo..hi

\* min(hi, n) without the max(lo, ...)
clamp_int_no_floor(n, lo, hi) == IF hi < n THEN hi ELSE n

clamp_int(n, lo, hi) ==
    LET m == IF hi < n THEN hi ELSE n
    IN  IF lo > m THEN lo ELSE m

(***************************************************************************)
(* Terminal input                                                          *)
(***************************************************************************)
\* the lines typed at the selection and allocation prompts
Lines == {"", "0", "1", "3", "8", "hard", "HARD", "zz", "²"}
\* the lines typed at the name prompt
NameLines == {"", " ", "Ada"}

Digits == <<"0", "1", "2", "3", "4", "5", "6", "7", "8", "9">>

\* str.strip on the explored lines
Strip(raw) == IF raw = " " THEN "" ELSE raw
\* characters of Unicode category No with the Digit property: str.isdigit
\* holds of them and int() rejects them
SuperscriptDigits == {"²"}

\* the exception of int() on a string that is no decimal literal
ValueError == "ValueError"

\* str.isdigit and int on the explored lines
IsDigit(raw) ==
    \/ \E i \in 1..Len(Digits) : Digits[i] = raw
    \/ raw \in SuperscriptDigits
IntRaises(raw) == raw \in SuperscriptDigits
IntOf(raw) == (CHOOSE i \in 1..Len(Digits) : Digits[i] = raw) - 1
\* str.lower on the explored lines (every option key is lower case)
Lower(raw) == IF raw = "HARD" THEN "hard" ELSE raw

\* one pass of prompt_choice's loop over the keys of the options: the key
\* returned, None when the prompt is repeated, ValueError when int() raises
PromptChoice(keys, line) ==
    LET raw == Strip(line)
    IN  IF IsDigit(raw) /\ IntRaises(raw)
        THEN ValueError
        ELSE IF IsDigit(raw) /\ 1 <= IntOf(raw) /\ IntOf(raw) <= Len(keys)
        THEN keys[IntOf(raw)]
        ELSE LET S == {i \in 1..Len(keys) : Lower(raw) = Lower(keys[i])}
             IN  IF S = {} THEN None
                 ELSE keys[CHOOSE i \in S : \A j \in S : i <= j]

(***************************************************************************)
(* The profile                                                             *)
(***************************************************************************)
\* the profile dict, without meta (a timestamp and the fixed theme)
Profile(nm, a, sc, df, st, jc, js) ==
    [name |-> nm, archetype |-> a, scenario |-> sc, difficulty |-> df,
     stats_0_7 |-> st,
     credit_score_0_1000 |-> DIFFICULTY_PRESETS(df).credit + jc,
     debt_stress_0_100 |->
         clamp_int(DIFFICULTY_PRESETS(df).stress + js, 0, 100)]

NoFiles == [f \in {} |-> 0]

\* open(path, "w") and json.dump
WriteFile(fs, path, profile) ==
    [f \in DOMAIN fs \cup {path} |-> IF f = path THEN profile ELSE fs[f]]

\* the stat is raised by two
RaiseByTwo(st, i) == [st EXCEPT ![i] = st[i] + 2]

\* the stat a "+" or a stat number raises
Raise(st, i) == [st EXCEPT ![i] = st[i] + 1]

\* the process ends at that position: its variables are gone, the files stay
ExitAt(pos) ==
    /\ wpc' = pos
    /\ name' = ""
    /\ arch_key' = ""
    /\ scenario_key' = ""
    /\ diff_key' = ""
    /\ stats' = <<>>
    /\ points' = 0

WizFresh ==
    /\ name = ""
    /\ arch_key = ""
    /\ scenario_key = ""
    /\ diff_key = ""
    /\ stats = <<>>
    /\ points = 0
    /\ files = NoFiles
    /\ writes = 0

(***************************************************************************)
(* main and the CLI wizard                                                 *)
(***************************************************************************)
\* main up to the first prompt or the GUI's main loop (lines 619-629,
\* 377-421, 610-611); when tkinter is missing gui_wizard returns at once
\* (lines 381-384)
Main ==
    /\ wpc = "main"
    /\ IF args.gui
       THEN \E tk_available \in BOOLEAN :
               IF tk_available
               THEN /\ wpc' = "gui"
                    /\ name' = DefaultName
                    /\ arch_key' = ARCHETYPES[1].key
                    /\ scenario_key' = SCENARIOS[1]
                    /\ diff_key' = "normal"
                    /\ points' = AllocationPoints
                    /\ stats' = ARCHETYPES[1].base_stats
               ELSE ExitAt("nogui")
       ELSE /\ wpc' = "name"
            /\ UNCHANGED <<name, arch_key, scenario_key, diff_key, stats, points>>
    /\ UNCHANGED <<args, files, writes>>
    /\ UNCHANGED cvars

\* line 294
EnterName ==
    /\ wpc = "name"
    /\ \E line \in NameLines :
        name' = IF Strip(line) = "" THEN DefaultName ELSE Strip(line)
    /\ wpc' = "archetype"
    /\ UNCHANGED <<args, arch_key, scenario_key, diff_key, stats, points,
                   files, writes>>
    /\ UNCHANGED cvars

\* lines 296-301: one line at the archetype prompt
ChooseArchetype ==
    /\ wpc = "archetype"
    /\ \E line \in Lines :
        LET k == PromptChoice(KeysOf(ARCHETYPES), line)
        IN  IF k = ValueError
            THEN ExitAt("crashed")
            ELSE IF k = None
            THEN UNCHANGED <<name, arch_key, scenario_key, diff_key, stats,
                             points, wpc>>
            ELSE /\ arch_key' = find_archetype(k).key
                 /\ wpc' = "scenario"
                 /\ UNCHANGED <<name, scenario_key, diff_key, stats, points>>
    /\ UNCHANGED <<args, files, writes>>
    /\ UNCHANGED cvars

\* lines 303-306: one line at the scenario prompt
ChooseScenario ==
    /\ wpc = "scenario"
    /\ \E line \in Lines :
        LET k == PromptChoice(SCENARIOS, line)
        IN  IF k = ValueError
            THEN ExitAt("crashed")
            ELSE IF k = None
            THEN UNCHANGED <<name, arch_key, scenario_key, diff_key, stats,
                             points, wpc>>
            ELSE /\ scenario_key' = k
                 /\ wpc' = "difficulty"
                 /\ UNCHANGED <<name, arch_key, diff_key, stats, points>>
    /\ UNCHANGED <<args, files, writes>>
    /\ UNCHANGED cvars

\* lines 308-317: one line at the difficulty prompt; a valid one starts the
\* allocation
ChooseDifficulty ==
    /\ wpc = "difficulty"
    /\ \E line \in Lines :
        LET k == PromptChoice(DifficultyKeys, line)
        IN  IF k = ValueError
            THEN ExitAt("crashed")
            ELSE IF k = None
            THEN UNCHANGED <<name, arch_key, scenario_key, diff_key, stats,
                             points, wpc>>
            ELSE /\ diff_key' = k
                 /\ stats' = find_archetype(arch_key).base_stats
                 /\ points' = AllocationPoints
                 /\ wpc' = "alloc"
                 /\ UNCHANGED <<name, arch_key, scenario_key>>
    /\ UNCHANGED <<args, files, writes>>
    /\ UNCHANGED cvars

\* the stat number picks a stat below the ceiling (lines 325-329)
CliPickOk(st, raw) ==
    /\ IsDigit(raw)
    /\ ~IntRaises(raw)
    /\ 1 <= IntOf(raw) /\ IntOf(raw) <= Len(STATS)
    /\ st[IntOf(raw)] < StatCeiling

\* lines 340-366 and 630-633: the profile is derived and written, main returns
CliFinish(st) ==
    /\ \E jc \in RandInt(0 - CreditJitter, CreditJitter),
          js \in RandInt(0 - StressJitter, StressJitter) :
        files' = WriteFile(files, args.out,
                     Profile(name, find_archetype(arch_key).key, scenario_key,
                             diff_key, st, jc, js))
    /\ writes' = writes + 1
    /\ ExitAt("exit")

\* one line at the allocation prompt (lines 318-337); the loop's end runs on
\* to the end of main
Allocate ==
    /\ wpc = "alloc"
    /\ points > 0
    /\ \E line \in Lines :
        LET raw == Strip(line)
        IN  IF raw = ""
            THEN CliFinish(stats)
            ELSE IF IsDigit(raw) /\ IntRaises(raw)
            THEN /\ ExitAt("crashed")
                 /\ UNCHANGED <<files, writes>>
            ELSE IF CliPickOk(stats, raw)
            THEN IF points - 1 > 0
                 THEN /\ stats' = Raise(stats, IntOf(raw))
                      /\ points' = points - 1
                      /\ UNCHANGED <<name, arch_key, scenario_key, diff_key,
                                     files, writes, wpc>>
                 ELSE CliFinish(Raise(stats, IntOf(raw)))
            ELSE UNCHANGED <<name, arch_key, scenario_key, diff_key, stats,
                             points, files, writes, wpc>>
    /\ UNCHANGED args
    /\ UNCHANGED cvars

(***************************************************************************)
(* The GUI wizard                                                          *)
(***************************************************************************)
\* the explored GUI sessions: the entries picked in the comboboxes (the
\* archetype alone is changed) and the "+" button pressed
ArchPicks == {0, 1}
ScenPicks == {0}
DiffPicks == {0}
BumpPicks == {1}

\* arch_changed, set_archetype (lines 567-570, 423-430)
ArchChanged ==
    /\ wpc = "gui"
    /\ \E idx \in ArchPicks :
        /\ idx >= 0
        /\ arch_key' = ARCHETYPES[idx + 1].key
        /\ points' = AllocationPoints
        /\ stats' = find_archetype(ARCHETYPES[idx + 1].key).base_stats
    /\ UNCHANGED <<args, name, scenario_key, diff_key, files, writes, wpc>>
    /\ UNCHANGED cvars

\* scen_changed (lines 580-583)
ScenChanged ==
    /\ wpc = "gui"
    /\ \E idx \in ScenPicks :
        /\ idx >= 0
        /\ scenario_key' = SCENARIOS[idx + 1]
    /\ UNCHANGED <<args, name, arch_key, diff_key, stats, points, files,
                   writes, wpc>>
    /\ UNCHANGED cvars

\* diff_changed (lines 592-596)
DiffChanged ==
    /\ wpc = "gui"
    /\ \E idx \in DiffPicks :
        /\ idx >= 0
        /\ diff_key' = DifficultyKeys[idx + 1]
    /\ UNCHANGED <<args, name, arch_key, scenario_key, stats, points, files,
                   writes, wpc>>
    /\ UNCHANGED cvars

\* bump that ignores the ceiling
BumpWhilePoints(pts, st, i) == ~(pts <= 0)

\* bump does not return early (lines 459-462)
BumpAllowed(pts, st, i) == ~(pts <= 0) /\ ~(st[i] >= StatCeiling)

\* bump (lines 458-465)
Bump ==
    /\ wpc = "gui"
    /\ \E i \in BumpPicks :
        IF BumpAllowed(points, stats, i)
        THEN /\ stats' = Raise(stats, i)
             /\ points' = points - 1
        ELSE UNCHANGED <<stats, points>>
    /\ UNCHANGED <<args, name, arch_key, scenario_key, diff_key, files,
                   writes, wpc>>
    /\ UNCHANGED cvars

\* build_profile (lines 499-521)
BuildProfile(jc, js) ==
    Profile(IF Strip(name) = "" THEN DefaultName ELSE Strip(name),
            find_archetype(arch_key).key, scenario_key, diff_key, stats,
            jc, js)

\* on_preview (lines 530-540): a profile is built and shown, nothing is kept
OnPreview ==
    /\ wpc = "gui"
    /\ UNCHANGED wvars
    /\ UNCHANGED cvars

\* on_save (lines 523-528)
OnSave ==
    /\ wpc = "gui"
    /\ writes < MaxWrites
    /\ \E jc \in RandInt(0 - CreditJitter, CreditJitter),
          js \in RandInt(0 - StressJitter, StressJitter) :
        files' = WriteFile(files, DefaultOut, BuildProfile(jc, js))
    /\ writes' = writes + 1
    /\ UNCHANGED <<args, name, arch_key, scenario_key, diff_key, stats,
                   points, wpc>>
    /\ UNCHANGED cvars

\* Quit: root.destroy ends the main loop, gui_wizard and main return
\* (lines 604, 611-612, 626-627)
Quit ==
    /\ wpc = "gui"
    /\ ExitAt("exit")
    /\ UNCHANGED <<args, files, writes>>
    /\ UNCHANGED cvars

NextWiz ==
    \/ Main
    \/ EnterName
    \/ ChooseArchetype
    \/ ChooseScenario
    \/ ChooseDifficulty
    \/ Allocate
    \/ ArchChanged
    \/ ScenChanged
    \/ DiffChanged
    \/ Bump
    \/ OnPreview
    \/ OnSave
    \/ Quit

\* the converter is not running
ConvIdle ==
    /\ argv = <<>>
    /\ dest = "absent"
    /\ exit_code = <<>>
    /\ doc = <<>>
    /\ accts = <<>>
    /\ root_guid = None
    /\ template_root_guid = None
    /\ commodities = <<>>
    /\ nodes = <<>>
    /\ guid_to_obj = EmptyMap
    /\ stack = <<>>
    /\ todo = <<>>
    /\ created = 0
    /\ cpc = "idle"

\* the wizard is not running
WizIdle ==
    /\ args = [gui |-> FALSE, out |-> DefaultOut]
    /\ WizFresh
    /\ wpc = "idle"

\* the command lines: none, --out run1.json, --gui --out run1.json
CommandLines ==
    {[gui |-> FALSE, out |-> DefaultOut], [gui |-> FALSE, out |-> "run1.json"],
     [gui |-> TRUE, out |-> "run1.json"]}

InitWiz ==
    /\ args \in CommandLines
    /\ WizFresh
    /\ wpc = "main"
    /\ ConvIdle

SpecWiz == InitWiz /\ [][NextWiz]_vars

\* the argument vectors: the script's name alone, with one, two and three
\* arguments
ArgVectors ==
    {<<"convert">>, <<"convert", "in.gnucash">>,
     <<"convert", "in.gnucash", "out.gnucash">>,
     <<"convert", "in.gnucash", "out.gnucash", "extra">>}

\* the file at the output path before the run: none, or an earlier book
DestBefore == {"absent", "old"}

\* the converter's inputs: an argument vector, the input document and the
\* state of the output path; every document with two arguments and no file
\* at the output path, the documents of at most one record with any other
\* number of arguments or an earlier book at the output path
InitDoc ==
    /\ argv \in ArgVectors
    /\ dest \in DestBefore
    /\ IsUniqueDoc(doc) \/ IsDupDoc(doc) \/ IsCurDoc(doc)
    /\ (WrongArgc(argv) \/ dest # "absent") => Len(doc) <= 1
    /\ ConvFresh
    /\ WizIdle

SpecConv == InitDoc /\ [][NextConv]_vars

\* documents of records with pairwise distinct ids and every parent link:
\* none, to the root (missing when the document has no Root Account), to a
\* record (itself, an earlier or a later one, in a cycle or not) or to a guid
\* of the pool that no record of the document has
IsLinkDoc(d) ==
    \E n \in 0..MaxAccts, h \in {<<>>, <<RootElem("r", "", "")>>} :
        \E p \in [1..n -> {"", "r"} \cup AcctGuids] :
            d = DocOf(h, n, UniquePattern(n), [i \in 1..n |-> "A"], p)

\* documents of two records with the same id under a Root Account
IsSharedIdDoc(d) ==
    \E p \in [1..2 -> {"r", GuidPool[1]}] :
        d = DocOf(<<RootElem("r", "", "")>>, 2, <<1, 1>>, <<"A", "A">>, p)

\* the runs whose end is looked at: two arguments, these documents, no file
\* at the output path
InitLinks ==
    /\ argv = <<"convert", "in.gnucash", "out.gnucash">>
    /\ dest = "absent"
    /\ IsLinkDoc(doc) \/ IsSharedIdDoc(doc)
    /\ ConvFresh
    /\ WizIdle

\* the converter is a sequential program: it takes its next step as long as
\* it has one
SpecConvLive == InitLinks /\ [][NextConv]_vars /\ WF_vars(NextConv)

(***************************************************************************)
(* Properties of the converter                                             *)
(***************************************************************************)
Finished == cpc = "done"

\* the records include a ROOT record named "Root Account"
HasRootAccount ==
    \E i \in 1..Len(accts) :
        accts[i].type = "ROOT" /\ accts[i].name = "Root Account"

\* every record has an identifier and no two records share one
UniqueIds ==
    /\ \A i \in 1..Len(accts) : accts[i].guid # ""
    /\ \A i, j \in 1..Len(accts) : accts[i].guid = accts[j].guid => i = j

\* the traversal is the root-driven one (line 175)
RootDriven == cpc \in {"tree", "done", "crashed"} /\ Truthy(root_guid)
\* the traversal is the fallback loop (line 177)
Fallback == cpc \in {"flat", "done"} /\ ~Truthy(root_guid)

NodeIds == 1..Len(nodes)
SrcOf(k) == accts[nodes[k].src]
NodesOf(i) == {k \in NodeIds : nodes[k].src = i}

\* every created node's parent is what guid_to_obj maps its record's parent to
ParentsMatchMap ==
    \A k \in NodeIds :
        /\ SrcOf(k).parent_guid \in DOMAIN guid_to_obj
        /\ nodes[k].parent = guid_to_obj[SrcOf(k).parent_guid]

\* C1 as stated: for any input with a ROOT record named "Root Account", after
\* build_sqlite_book finishes every created node's parent is the object
\* guid_to_obj maps its source record's parent_guid to.
C1_AnyInputParentsMatch == (Finished /\ HasRootAccount) => ParentsMatchMap

\* C1 amended: the same for inputs whose records all carry an identifier and
\* carry pairwise distinct ones (the Root Account's included).
C1_UniqueIdsParentsMatch ==
    (Finished /\ HasRootAccount /\ UniqueIds) => ParentsMatchMap

\* a finished run over unique ids with a node under the root and a node under
\* another created node
C1_Witness ==
    /\ Finished /\ HasRootAccount /\ UniqueIds
    /\ \E k, m \in NodeIds :
        /\ nodes[k].parent = RootAccount
        /\ nodes[m].parent = k
        /\ guid_to_obj[SrcOf(m).parent_guid] = k

RECURSIVE ReachesRoot(_, _)
\* the parent chain of record i reaches a Root Account record within n links
ReachesRoot(i, n) ==
    /\ n > 0
    /\ accts[i].parent_guid # None
    /\ \E j \in 1..Len(accts) :
        /\ accts[j].guid = accts[i].parent_guid
        /\ \/ accts[j].type = "ROOT" /\ accts[j].name = "Root Account"
           \/ accts[j].type # "ROOT" /\ ReachesRoot(j, n - 1)

\* the source's non-template account tree
SourceTree ==
    {i \in 1..Len(accts) :
        accts[i].type # "ROOT" /\ ReachesRoot(i, Len(accts))}

\* the destination object of record i's parent in an isomorphic copy
MirrorParent(k) ==
    LET P == {j \in 1..Len(accts) : accts[j].guid = SrcOf(k).parent_guid}
    IN  \E j \in P :
            IF accts[j].type = "ROOT"
            THEN nodes[k].parent = RootAccount
            ELSE nodes[k].parent \in NodesOf(j)

C3_Flattening ==
    (Finished /\ ~Truthy(root_guid)) =>
        /\ \A i \in 1..Len(accts) : accts[i].type # "ROOT" => NodesOf(i) # {}
        /\ \A k \in NodeIds : nodes[k].parent = RootAccount

\* C4: a non-ROOT record whose parent identifier is absent is created under
\* the destination's root account, with or without a Root Account record.
C4_AbsentParentUnderRoot ==
    Finished =>
        \A i \in 1..Len(accts) :
            (accts[i].type # "ROOT" /\ accts[i].parent_guid = None) =>
                \E k \in NodesOf(i) : nodes[k].parent = RootAccount

RECURSIVE Under(_, _)
\* node d is in the subtree below node k
Under(d, k) ==
    /\ nodes[d].parent >= 1
    /\ nodes[d].parent = k \/ Under(nodes[d].parent, k)

\* C5: in the root-driven traversal the nodes of one parent are created in
\* ascending order of name, and the whole subtree of a node before its next
\* sibling.
C5_SiblingsInNameOrder ==
    RootDriven =>
        \A k, m \in NodeIds :
            (nodes[k].parent = nodes[m].parent /\ k < m) =>
                /\ NameRank(nodes[k].name) <= NameRank(nodes[m].name)
                /\ \A d \in NodeIds : Under(d, k) => d < m

\* siblings A and B given in the document as B then A, A with a child
C5_Witness ==
    /\ Finished /\ RootDriven
    /\ \E k, m, d \in NodeIds :
        /\ nodes[k].parent = nodes[m].parent
        /\ nodes[k].name = "A" /\ nodes[m].name = "B"
        /\ nodes[m].src < nodes[k].src
        /\ nodes[d].parent = k
        /\ k < d /\ d < m

\* the CURRENCY code record i declares, normalised; None when it declares none
DeclaredCode(i) ==
    IF accts[i].commodity_space = "CURRENCY" /\ Truthy(accts[i].commodity_id)
    THEN StripUpper(accts[i].commodity_id)
    ELSE None

NothingParsed ==
    /\ accts = <<>>
    /\ root_guid = None
    /\ template_root_guid = None
    /\ nodes = <<>>

\* C12: whenever the argument vector does not have exactly 3 entries main
\* ends with status 2 and with nothing else: the input is never parsed and
\* the file at the output path is neither created nor replaced; status 2 is
\* returned in no other run, and a run with exactly 3 entries whose build
\* completes ends with status 0 and the saved book.
C12_ExitCodes ==
    /\ [](Len(argv) # 3 =>
            /\ cpc \in {"main", "usage"}
            /\ cpc = "main" => exit_code = <<>>
            /\ cpc = "usage" => exit_code = <<2>>
            /\ NothingParsed
            /\ dest \in DestBefore)
    /\ [][Len(argv) # 3 => dest' = dest]_vars
    /\ [](exit_code = <<2>> => Len(argv) # 3)
    /\ [](Finished => exit_code = <<0>> /\ dest = "saved")
    /\ [](exit_code = <<0>> => Finished /\ Len(argv) = 3)

\* a run with one argument too many, over an existing book: status 2, the
\* book untouched
C12_Witness ==
    /\ Len(argv) = 4
    /\ cpc = "usage"
    /\ exit_code = <<2>>
    /\ dest = "old"
    /\ doc # <<>>
    /\ NothingParsed

\* the created nodes as they are compared: name, type and parent, in
\* creation order
Shape(ns) ==
    [k \in 1..Len(ns) |->
        [name |-> ns[k].name, type |-> ns[k].type, parent |-> ns[k].parent]]

\* the positions of the non-ROOT records of d
AcctPositions(d) == {i \in 1..Len(d) : d[i].type # "ROOT"}

\* the documents with the non-ROOT records of d in another order, the ROOT
\* records where they are
Reordered(d) ==
    {[i \in 1..Len(d) |-> IF i \in AcctPositions(d) THEN d[f[i]] ELSE d[i]] :
        f \in Permutations(AcctPositions(d))}

\* every reordering of the document yields the nodes of this run
SameNodesInAnyOrder ==
    \A d2 \in Reordered(doc) :
        /\ ~BuildRun(d2).crashed
        /\ Shape(BuildRun(d2).nodes) = Shape(nodes)

\* no two records that one sort compares share a name: the children of one
\* parent in the root-driven traversal, all non-ROOT records in the fallback
SortedNamesDiffer ==
    \A i, j \in 1..Len(accts) :
        (/\ i # j
         /\ accts[i].type # "ROOT" /\ accts[j].type # "ROOT"
         /\ ~Truthy(root_guid) \/ accts[i].parent_guid = accts[j].parent_guid)
            => accts[i].name # accts[j].name

DocIdsDistinct ==
    \A i, j \in 1..Len(doc) : doc[i].id = doc[j].id => i = j

\* C15: on an input whose record identifiers are pairwise distinct, whether
\* its parent links form a cycle or name missing records, the traversal
\* never overflows, no record yields more than one node (no guid is visited
\* twice), the active calls never outnumber the created nodes by more than
\* one, and the build, once started, runs to its end.
C15_TraversalTerminates ==
    /\ [](DocIdsDistinct =>
            /\ cpc # "crashed"
            /\ \A i \in 1..Len(accts) : Cardinality(NodesOf(i)) <= 1
            /\ \A k, m \in NodeIds :
                SrcOf(k).guid = SrcOf(m).guid => k = m
            /\ Len(stack) <= Len(nodes) + 1)
    /\ ((cpc = "start" /\ DocIdsDistinct) ~> Finished)

\* a finished run over distinct identifiers: one account under the root,
\* two accounts that name each other as parent and are never visited
C15_Witness ==
    /\ Finished /\ DocIdsDistinct /\ RootDriven
    /\ Len(nodes) = 1
    /\ \E i, j \in 1..Len(accts) :
        /\ i # j
        /\ accts[i].parent_guid = accts[j].guid
        /\ accts[j].parent_guid = accts[i].guid
        /\ NodesOf(i) = {} /\ NodesOf(j) = {}

(***************************************************************************)
(* Properties of the wizard                                                *)
(***************************************************************************)
StatIds == 1..Len(STATS)

\* C7: in both surfaces, whatever is typed or clicked, every stat stays in
\* 0..7 and the remaining pool in 0..3, in the wizard and in what it writes.
C7_StatsAndPoolInRange ==
    /\ wpc \in {"alloc", "gui"} =>
        /\ \A i \in StatIds : stats[i] \in 0..7
        /\ points \in 0..3
    /\ \A f \in DOMAIN files :
        \A i \in StatIds : files[f].stats_0_7[i] \in 0..7

\* the GUI after "+" on a stat at 6: the stat is at the ceiling and "+" is
\* refused with points left
C7_Witness ==
    /\ wpc = "gui"
    /\ arch_key = "banker"
    /\ stats[1] = 7
    /\ points = 2

\* C8: every written profile has its credit score within 15 of its preset's
\* credit and in 0..1000, and its debt stress equal to preset stress + j
\* clamped to 0..100 for some j in -5..5.
C8_DerivedWithinPreset ==
    \A f \in DOMAIN files :
        LET p == files[f]
            preset == DIFFICULTY_PRESETS(p.difficulty)
        IN  /\ p.credit_score_0_1000 \in (preset.credit - 15)..(preset.credit + 15)
            /\ p.credit_score_0_1000 \in 0..1000
            /\ p.debt_stress_0_100 \in 0..100
            /\ \E j \in (0 - 5)..5 :
                p.debt_stress_0_100 =
                    IF preset.stress + j < 0 THEN 0
                    ELSE IF preset.stress + j > 100 THEN 100
                    ELSE preset.stress + j

\* a profile at the ends of the ranges: the lowest credit of "normal" and a
\* stress that is 0 (also for the draws the clamp raised to 0)
C8_Witness ==
    \E f \in DOMAIN files :
        /\ files[f].difficulty = "normal"
        /\ files[f].debt_stress_0_100 = 0
        /\ files[f].credit_score_0_1000 = 705

\* C9: every invocation that runs to completion has written exactly one
\* profile, on the CLI and on the GUI surface alike.
C9_ExactlyOneProfile == wpc = "exit" => writes = 1

\* C10: with --out <path> the profile is written to that file and not to
\* pulsevector_profile.json, in CLI mode and in --gui mode.
C10_OutHonoured ==
    (args.out # DefaultOut /\ writes > 0) =>
        /\ args.out \in DOMAIN files
        /\ DefaultOut \notin DOMAIN files

\* the wizard is at a prompt_choice prompt
AtPrompt == wpc \in {"archetype", "scenario", "difficulty"}

\* the values prompt_choice can return at the three prompts
OfferedKeys(pos) ==
    CASE pos = "archetype" -> {ARCHETYPES[i].key : i \in 1..Len(ARCHETYPES)}
      [] pos = "scenario" -> {SCENARIOS[i] : i \in 1..Len(SCENARIOS)}
      [] pos = "difficulty" -> {DifficultyKeys[i] : i \in 1..Len(DifficultyKeys)}

\* C11: whatever line is typed at a selection prompt, prompt_choice either
\* asks again (nothing chosen, the wizard stays at the prompt) or returns a
\* key of the offered options and the wizard moves on to the next step; no
\* line makes it fail otherwise.
C11_PromptReturnsOfferedKey ==
    [][AtPrompt =>
        \/ wpc' = wpc /\ UNCHANGED <<arch_key, scenario_key, diff_key>>
        \/ /\ wpc = "archetype" /\ wpc' = "scenario"
           /\ arch_key' \in OfferedKeys("archetype")
        \/ /\ wpc = "scenario" /\ wpc' = "difficulty"
           /\ scenario_key' \in OfferedKeys("scenario")
        \/ /\ wpc = "difficulty" /\ wpc' = "alloc"
           /\ diff_key' \in OfferedKeys("difficulty")]_vars

RECURSIVE SumTo(_, _)
\* st[1] + ... + st[n]
SumTo(st, n) == IF n = 0 THEN 0 ELSE st[n] + SumTo(st, n - 1)

\* the base values of the selected archetype
BaseStats == find_archetype(arch_key).base_stats

\* the allocation loop or the GUI window is running
Allocating == wpc \in {"alloc", "gui"}

\* stat i of st raised by one, every other stat as it was
RaisedByOne(st, new) ==
    \E i \in StatIds :
        /\ st[i] < 7
        /\ new = [st EXCEPT ![i] = st[i] + 1]

\* C14: in both surfaces the stats exceed the selected archetype's base
\* values by 3 minus the remaining pool in total; a step of the allocation
\* changes nothing, or raises exactly one stat below 7 by 1 and takes 1 from
\* a pool above 0, or (GUI archetype selection) resets the stats to the new
\* archetype's base values and the pool to 3; the CLI's last step writes the
\* stats as they are or with one last point spent.
C14_PointConservation ==
    /\ [](Allocating =>
            /\ SumTo(stats, 7) - SumTo(BaseStats, 7) = 3 - points
            /\ \A i \in StatIds : stats[i] >= BaseStats[i])
    /\ [][(Allocating /\ wpc' = wpc) =>
            \/ UNCHANGED <<arch_key, stats, points>>
            \/ /\ arch_key' = arch_key
               /\ points > 0
               /\ points' = points - 1
               /\ RaisedByOne(stats, stats')
            \/ /\ wpc = "gui"
               /\ stats' = find_archetype(arch_key').base_stats
               /\ points' = 3]_vars
    /\ [][(wpc = "alloc" /\ wpc' = "exit") =>
            \/ files'[args.out].stats_0_7 = stats
            \/ points = 1 /\ RaisedByOne(stats, files'[args.out].stats_0_7)]_vars

\* the GUI after a change of archetype and all three points spent
C14_Witness ==
    /\ wpc = "gui"
    /\ arch_key = "accountant"
    /\ points = 0
    /\ stats[1] = 6
    /\ stats[2] = 6

====
